---- MODULE Spec2Model ----
(***************************************************************************)
(* Model of the TESTEX file-lifecycle simulator                            *)
(* (src/python-scripts/file_simulator.py, class FileSystemSimulator).      *)
(*                                                                         *)
(* State: the in-memory registry (an insertion-ordered dict path ->        *)
(* FileInfo object), the FileInfo objects themselves (callers keep         *)
(* references to them, so an object outlives its registry entry), the      *)
(* files, zips and destination directories on disk, the JSON snapshot      *)
(* file, the operation log, the wall clock that names the zips, and the    *)
(* value returned by the last call.                                        *)
(***************************************************************************)
EXTENDS Integers, Sequences, FiniteSets, TLC

VARIABLES
    files_registry,   \* self.files_registry: sequence of [key, obj], dict order
    info,             \* the FileInfo objects: obj -> [path, archived, backed_up]
    objs,             \* FileInfo objects of this instance a caller can hold
    disk,             \* existing paths -> content (zip: sequence of arcnames)
    dirs,             \* destination directories created under backup/archive path
    snapshot,         \* content of data_file, or NoFile
    operations_log,   \* self.operations_log
    now,              \* datetime.now(), at the one-second resolution of the zip names
    calls,            \* number of calls made so far (bounds the run)
    result            \* the last call: its name, arguments and return value (and,
                      \* for remove_files, the files whose os.remove raised)

vars == <<files_registry, info, objs, disk, dirs, snapshot, operations_log,
          now, calls, result>>

(***************************************************************************)
(* Bounds of the model and program constants.                              *)
(***************************************************************************)
MaxFiles == 2          \* sample files created by the seeding (all clients)
MaxTime == 2           \* distinct seconds the clock goes through
MaxCalls == 2          \* lifecycle calls (dry-run or not) per run
MaxLogSteps == 3       \* log_operation calls per run of the log specification
MaxLogEntries == 1000  \* the cap of log_operation
MaxLogLen == 3         \* entries of the logs that get_client_operations searches
MaxStamp == 3          \* distinct timestamps of these entries
MaxLimit == 3          \* largest limit passed to get_client_operations
MaxRequests == 2       \* requests handled per run of the request handlers

FileIds == 1..MaxFiles
sample_clients == {"CLI001", "CLI002"}

\* create_sample_files: the file named <client>_file_<i> belongs to <client>.
ClientOf(f) == IF f % 2 = 1 THEN "CLI001" ELSE "CLI002"
\* create_sample_files: size = len(content.encode('utf-8')), fixed per file.
SizeOf(f) == 100 * f
\* calculate_checksum: the MD5 of the content written for the file.
ChecksumOf(f) == f

(***************************************************************************)
(* Strings that are searched: sequences of one-character strings.          *)
(***************************************************************************)
ClientChars(client_id) ==
    IF client_id = "CLI001" THEN <<"C", "L", "I", "0", "0", "1">>
                            ELSE <<"C", "L", "I", "0", "0", "2">>

\* random.choice(file_types): the extension the file got
Extension(f) == IF f % 2 = 1 THEN <<".", "d", "o", "c">> ELSE <<".", "p", "d", "f">>

\* f"{i+1:03d}" for the i-th file of its client
Number(f) == <<"0", "0", <<"1", "2", "3", "4", "5", "6", "7", "8", "9">>[(f + 1) \div 2]>>

\* filename = f"{client_id}_file_{i+1:03d}{extension}"
NameOf(f) ==
    ClientChars(ClientOf(f)) \o <<"_", "f", "i", "l", "e", "_">> \o Number(f) \o Extension(f)

\* str.lower() on the characters that occur
LowerChar(c) ==
    CASE c = "C" -> "c" [] c = "L" -> "l" [] c = "I" -> "i" [] c = "F" -> "f"
      [] c = "D" -> "d" [] c = "O" -> "o" [] c = "P" -> "p" [] OTHER -> c

Lower(str) == [i \in 1..Len(str) |-> LowerChar(str[i])]

\* sub in str, for Python strings
Contains(sub, str) ==
    \E i \in 0..(Len(str) - Len(sub)) : SubSeq(str, i + 1, i + Len(sub)) = sub

\* Matches with the comparison made on the strings as they are
Matches_CaseSensitive(file_pattern, name) ==
    file_pattern = <<"*">> \/ Contains(file_pattern, name)

\* file_pattern == "*" or file_pattern.lower() in file_info.name.lower()
Matches(file_pattern, name) ==
    file_pattern = <<"*">> \/ Contains(Lower(file_pattern), Lower(name))

\* the file patterns of the calls
Patterns ==
    {<<"*">>, <<>>, <<"c", "l", "i", "0", "0", "1">>, <<"C", "L", "I">>, <<"F", "i", "l", "e">>,
     <<".", "D", "O", "C">>, <<"1", ".">>, <<"x">>, <<"*", "*">>}

\* str(client_dir / filename)
FilePath(f) == [kind |-> "file", client |-> ClientOf(f), n |-> f]
\* backup_dir / f"backup_{client_id}_{timestamp}.zip", and the same for archive
ZipPath(kind, client_id, t) == [kind |-> kind, client |-> client_id, n |-> t]

\* the data file: its records and log entries, whether it exists, and where
\* reading it fails: corrupt = 0 nowhere, -1 in json.load, k > 0 in
\* FileInfo(**file_data) for its k-th record
NoFile == [files |-> <<>>, operations_log |-> <<>>, exists |-> FALSE, corrupt |-> 0]
NoFault == [at |-> 0, call |-> "none"]
\* an object in the list of a call that is not a FileInfo (None, a dict, ...)
Foreign == 0

\* FileInfo(...) as create_sample_files builds it: archived and backed_up default False
NewFileInfo(f) == [path |-> FilePath(f), archived |-> FALSE, backed_up |-> FALSE]

(***************************************************************************)
(* The registry: a Python dict, kept as the sequence of its items.         *)
(***************************************************************************)
Keys(reg) == {reg[i].key : i \in 1..Len(reg)}
Values(reg) == {reg[i].obj : i \in 1..Len(reg)}

\* reg[key] = obj: a present key keeps its position, a new key goes last
RegPut(reg, key, obj) ==
    IF key \in Keys(reg)
    THEN [i \in 1..Len(reg) |-> IF reg[i].key = key THEN [key |-> key, obj |-> obj] ELSE reg[i]]
    ELSE Append(reg, [key |-> key, obj |-> obj])

\* del reg[key]
RegDel(reg, key) == SelectSeq(reg, LAMBDA it : it.key # key)

SeqToSet(s) == {s[i] : i \in 1..Len(s)}

\* the lists of distinct FileInfo objects a caller can pass
FileLists(objects) ==
    {s \in UNION {[1..n -> objects] : n \in 0..Cardinality(objects)} :
        \A i, j \in 1..Len(s) : i # j => s[i] # s[j]}

RECURSIVE SumSizes(_)
SumSizes(files) == IF files = <<>> THEN 0 ELSE SizeOf(Head(files)) + SumSizes(Tail(files))

(***************************************************************************)
(* log_operation                                                           *)
(***************************************************************************)
\* LogEntry with one operation_type for every operation
LogEntry_Untagged(t, client_id, operation_type, details, success) ==
    [timestamp |-> t, client_id |-> client_id, operation_type |-> "OPERATION",
     details |-> details, success |-> success]

\* details: the numbers the message text carries
LogEntry(t, client_id, operation_type, details, success) ==
    [timestamp |-> t, client_id |-> client_id, operation_type |-> operation_type,
     details |-> details, success |-> success]

\* a cap that keeps the oldest n entries
LastEntries_Oldest(log, n) == IF Len(log) > n THEN SubSeq(log, 1, n) ELSE log

\* self.operations_log[-1000:]
LastEntries(log, n) == IF Len(log) > n THEN SubSeq(log, Len(log) - n + 1, Len(log)) ELSE log

\* log_operation that drops the entries with success = False
log_operation_SuccessOnly(log, entry) ==
    IF entry.success THEN Append(log, entry) ELSE log

\* log_operation putting the new entry in front of the others
log_operation_Prepends(log, entry) ==
    LET appended == <<entry>> \o log
    IN  IF Len(appended) > MaxLogEntries
        THEN LastEntries(appended, MaxLogEntries)
        ELSE appended

\* self.operations_log.append(operation), then the cap
log_operation(log, entry) ==
    LET appended == Append(log, entry)
    IN  IF Len(appended) > MaxLogEntries
        THEN LastEntries(appended, MaxLogEntries)
        ELSE appended

(***************************************************************************)
(* get_client_operations                                                   *)
(***************************************************************************)
\* one step of sorted(..., key=timestamp, reverse=True): the sort is stable, so
\* an entry goes behind the entries before it that have the same timestamp.
\* Timestamps are the isoformat() strings; their order as strings is the order
\* of the instants, which the numbers of the model stand for.
InsertDescending(sorted, entry) ==
    LET before == {i \in 1..Len(sorted) : sorted[i].timestamp >= entry.timestamp}
        n == Cardinality(before)
    IN  SubSeq(sorted, 1, n) \o <<entry>> \o SubSeq(sorted, n + 1, Len(sorted))

RECURSIVE SortedDescending(_, _, _)
SortedDescending(entries, k, sorted) ==
    IF k > Len(entries) THEN sorted
    ELSE SortedDescending(entries, k + 1, InsertDescending(sorted, entries[k]))

\* seq[:limit], as Python slices: a negative limit counts from the end
SliceTo(seq, limit) ==
    IF limit >= 0
    THEN SubSeq(seq, 1, IF limit < Len(seq) THEN limit ELSE Len(seq))
    ELSE SubSeq(seq, 1, IF Len(seq) + limit > 0 THEN Len(seq) + limit ELSE 0)

\* get_client_operations without the [:limit]
get_client_operations_NoLimit(log, client_id, limit) ==
    SortedDescending(SelectSeq(log, LAMBDA entry : entry.client_id = client_id), 1, <<>>)

get_client_operations(log, client_id, limit) ==
    LET client_ops == SelectSeq(log, LAMBDA entry : entry.client_id = client_id)
    IN  SliceTo(SortedDescending(client_ops, 1, <<>>), limit)

(***************************************************************************)
(* save_registry / load_registry                                           *)
(***************************************************************************)
\* file_info.__dict__.copy(), as json.dump writes it
RecordOf(f, inf) ==
    [name |-> f, path |-> inf[f].path, size |-> SizeOf(f), checksum |-> ChecksumOf(f),
     archived |-> inf[f].archived, backed_up |-> inf[f].backed_up]

save_registry(reg, inf, log) ==
    [files |-> [i \in 1..Len(reg) |-> RecordOf(reg[i].obj, inf)],
     operations_log |-> log, exists |-> TRUE, corrupt |-> 0]

\* the loop of load_registry: self.files_registry[file_info.path] = file_info
RECURSIVE LoadLoop(_, _, _)
LoadLoop(records, k, reg) ==
    IF k > Len(records) THEN reg
    ELSE LoadLoop(records, k + 1, RegPut(reg, records[k].path, records[k].name))

\* the FileInfo objects load_registry builds, by name
LoadedInfo(records) ==
    [f \in FileIds |->
        IF \E k \in 1..Len(records) : records[k].name = f
        THEN LET k == CHOOSE k \in 1..Len(records) : records[k].name = f
             IN  [path |-> records[k].path, archived |-> records[k].archived,
                  backed_up |-> records[k].backed_up]
        ELSE NewFileInfo(f)]

\* the except branch with the two resets left out: partial is the registry
\* as the loop left it (inserted: the records it held when reading stopped)
LoadFailed_KeepsPartial(partial, records) ==
    [registry |-> partial, info |-> LoadedInfo(records), log |-> <<>>, failed |-> TRUE,
     inserted |-> Len(partial)]

\* the except branch: self.files_registry = {} and self.operations_log = []
LoadFailed(partial, records) ==
    [registry |-> <<>>, info |-> [f \in FileIds |-> NewFileInfo(f)], log |-> <<>>,
     failed |-> TRUE, inserted |-> Len(partial)]

load_registry(snap) ==
    IF ~snap.exists
    THEN [registry |-> <<>>, info |-> [f \in FileIds |-> NewFileInfo(f)], log |-> <<>>,
          failed |-> FALSE, inserted |-> 0]
    ELSE IF snap.corrupt = -1
    THEN LoadFailed(<<>>, <<>>)
    ELSE IF snap.corrupt \in 1..Len(snap.files)
    \* the records before the one that fails are in the registry by then
    THEN LET records == SubSeq(snap.files, 1, snap.corrupt - 1)
         IN  LoadFailed(LoadLoop(records, 1, <<>>), records)
    ELSE [registry |-> LoadLoop(snap.files, 1, <<>>),
          info |-> LoadedInfo(snap.files),
          log |-> snap.operations_log,
          failed |-> FALSE, inserted |-> Len(LoadLoop(snap.files, 1, <<>>))]

(***************************************************************************)
(* create_sample_files: writes every sample file and registers it          *)
(***************************************************************************)
RECURSIVE SeedLoop(_, _)
SeedLoop(f, reg) ==
    IF f > MaxFiles THEN reg ELSE SeedLoop(f + 1, RegPut(reg, FilePath(f), f))

SeededDisk(dsk) ==
    [p \in DOMAIN dsk \cup {FilePath(f) : f \in FileIds} |->
        IF p \in {FilePath(f) : f \in FileIds} THEN <<>> ELSE dsk[p]]

\* Construct with create_sample_files called whatever the registry holds
Construct_AlwaysSeeds(snap, dsk, t) ==
    LET loaded == load_registry(snap)
        reg == SeedLoop(1, loaded.registry)
        inf == [f \in FileIds |-> NewFileInfo(f)]
        log == log_operation(loaded.log, LogEntry(t, "SYSTEM", "INIT", <<Len(reg)>>, TRUE))
    IN  [registry |-> reg, info |-> inf, objs |-> FileIds, log |-> log,
         disk |-> SeededDisk(dsk), snapshot |-> save_registry(reg, inf, log),
         seeded |-> TRUE, load_failed |-> loaded.failed, inserted |-> loaded.inserted]

\* __init__: init_directories, load_registry, init_sample_files
Construct(snap, dsk, t) ==
    LET loaded == load_registry(snap)
    IN  IF Len(loaded.registry) = 0
        THEN LET reg == SeedLoop(1, <<>>)
                 inf == [f \in FileIds |-> NewFileInfo(f)]
                 log == log_operation(loaded.log,
                            LogEntry(t, "SYSTEM", "INIT", <<Len(reg)>>, TRUE))
             IN  [registry |-> reg, info |-> inf, objs |-> FileIds, log |-> log,
                  disk |-> SeededDisk(dsk), snapshot |-> save_registry(reg, inf, log),
                  seeded |-> TRUE, load_failed |-> loaded.failed,
                  inserted |-> loaded.inserted]
        ELSE [registry |-> loaded.registry, info |-> loaded.info,
              objs |-> Values(loaded.registry), log |-> loaded.log,
              disk |-> dsk, snapshot |-> snap, seeded |-> FALSE,
              load_failed |-> loaded.failed, inserted |-> loaded.inserted]


(***************************************************************************)
(* The file system and the I/O calls that can raise.                       *)
(***************************************************************************)
\* os.path.exists(path)
Exists(dsk, path) == path \in DOMAIN dsk

\* the file at path created or rewritten with the given content
WriteFile(dsk, path, content) ==
    [p \in DOMAIN dsk \cup {path} |-> IF p = path THEN content ELSE dsk[p]]

\* os.remove(path)
RemoveFile(dsk, path) == [p \in DOMAIN dsk \ {path} |-> dsk[p]]

\* none of the I/O calls raises, or the call io made for files[at] does
Faults(files, io_calls) ==
    {NoFault} \cup {[at |-> k, call |-> c] : k \in 1..Len(files), c \in io_calls}

Raises(fault, k, io) == fault.at = k /\ fault.call = io

(***************************************************************************)
(* The simulator and its environment as one value s:                       *)
(* [registry, info, objs, disk, dirs, snapshot, log, now].                 *)
(* Every operation maps s and its arguments to [state, ret].               *)
(***************************************************************************)
Cur ==
    [registry |-> files_registry, info |-> info, objs |-> objs, disk |-> disk,
     dirs |-> dirs, snapshot |-> snapshot, log |-> operations_log, now |-> now]

\* get_client_files(client_id, file_pattern): the list it returns
get_client_files(s, client_id, file_pattern) ==
    LET matching == SelectSeq(s.registry,
                        LAMBDA it : /\ ClientOf(it.obj) = client_id
                                    /\ Matches(file_pattern, NameOf(it.obj)))
    IN  [i \in 1..Len(matching) |-> matching[i].obj]

(***************************************************************************)
(* backup_files                                                            *)
(***************************************************************************)
\* BackupOne without the line file_info.backed_up = True
BackupOne_NoFlag(st, f) ==
    [st EXCEPT !.entries = Append(@, st.info[f].path),
               !.names = Append(@, f),
               !.total = @ + SizeOf(f)]

\* the body of the loop for a file found on disk: zipf.write, then the flag
BackupOne(st, f) ==
    [st EXCEPT !.entries = Append(@, st.info[f].path),
               !.info[f].backed_up = TRUE,
               !.names = Append(@, f),
               !.total = @ + SizeOf(f)]

\* the loop inside the with zipfile.ZipFile(...) block; raised: zipf.write raised
RECURSIVE BackupLoop(_, _, _, _)
BackupLoop(files, k, fault, st) ==
    IF k > Len(files) THEN st
    ELSE IF ~Exists(st.disk, st.info[files[k]].path)
    THEN BackupLoop(files, k + 1, fault, st)
    ELSE IF Raises(fault, k, "write")
    THEN [st EXCEPT !.raised = TRUE]
    ELSE BackupLoop(files, k + 1, fault, BackupOne(st, files[k]))

\* BackupDryRun with backup_dir.mkdir placed before the what_if test
BackupDryRun_Mkdir(s, client_id, files) ==
    [state |-> [s EXCEPT !.dirs = @ \cup {[kind |-> "backup", client |-> client_id]}],
     ret |-> [op |-> "backup", success |-> TRUE, simulation |-> TRUE,
              files_count |-> Len(files), total_size |-> SumSizes(files)]]

\* the what_if branch: nothing but the return value
BackupDryRun(s, client_id, files) ==
    [state |-> s,
     ret |-> [op |-> "backup", success |-> TRUE, simulation |-> TRUE,
              files_count |-> Len(files), total_size |-> SumSizes(files)]]

backup_files(s, client_id, files, what_if, fault) ==
    IF what_if THEN BackupDryRun(s, client_id, files)
    ELSE
    LET backup_file == ZipPath("backup", client_id, s.now)
        \* ZipFile(backup_file, 'w') creates or truncates the zip before the loop
        st == BackupLoop(files, 1, fault,
                 [info |-> s.info, disk |-> WriteFile(s.disk, backup_file, <<>>),
                  entries |-> <<>>, names |-> <<>>, total |-> 0, raised |-> FALSE])
        \* leaving the with block closes the zip, also when the loop raised
        after == [s EXCEPT !.dirs = @ \cup {[kind |-> "backup", client |-> client_id]},
                           !.disk = WriteFile(st.disk, backup_file, st.entries),
                           !.info = st.info]
    IN  IF st.raised
        THEN [state |-> [after EXCEPT !.log = log_operation(@,
                            LogEntry(s.now, client_id, "BACKUP_ERROR", <<>>, FALSE))],
              ret |-> [op |-> "backup", client_id |-> client_id, files |-> files,
                       success |-> FALSE, simulation |-> FALSE,
                       error |-> TRUE, propagates |-> FALSE]]
        ELSE [state |-> [after EXCEPT !.log = log_operation(@,
                            LogEntry(s.now, client_id, "BACKUP_CREATED",
                                     <<Len(st.names)>>, TRUE))],
              ret |-> [op |-> "backup", client_id |-> client_id, files |-> files,
                       success |-> TRUE, simulation |-> FALSE,
                       error |-> FALSE, propagates |-> FALSE,
                       zip_path |-> backup_file, files_count |-> Len(st.names),
                       total_size |-> st.total, backed_up_files |-> st.names]]

(***************************************************************************)
(* remove_files                                                            *)
(***************************************************************************)
\* MayRemove without the test of the backed_up flag
MayRemove_ForceOnly(force, inf, f) == force

\* if force or file_info.backed_up
MayRemove(force, inf, f) == force \/ inf[f].backed_up

\* RemoveOne without total_size_removed += file_info.size
RemoveOne_Uncounted(st, f, path) ==
    [st EXCEPT !.disk = RemoveFile(@, path),
               !.registry = RegDel(@, path),
               !.removed = Append(@, f)]

\* os.remove if the path exists, then del self.files_registry[path] if it is a key
RemoveOne(st, f, path) ==
    [st EXCEPT !.disk = RemoveFile(@, path),
               !.registry = RegDel(@, path),
               !.removed = Append(@, f),
               !.total = @ + SizeOf(f)]

\* the for loop; an os.remove that raises is caught per file. An object of the
\* list that is not a FileInfo (fault "item": the k-th object of the list the
\* caller passes is a foreign one) raises on file_info.backed_up or
\* file_info.path and again on file_info.name in the per-file handler, and
\* this second exception leaves the loop.
RECURSIVE RemoveLoop(_, _, _, _, _, _)
RemoveLoop(files, k, force, fault, inf, st) ==
    IF k > Len(files) THEN st
    ELSE IF Raises(fault, k, "item")
    THEN [st EXCEPT !.failed = TRUE]
    ELSE IF ~MayRemove(force, inf, files[k])
    THEN RemoveLoop(files, k + 1, force, fault, inf,
            [st EXCEPT !.remaining = Append(@, files[k])])
    ELSE IF Exists(st.disk, inf[files[k]].path) /\ Raises(fault, k, "remove")
    THEN RemoveLoop(files, k + 1, force, fault, inf,
            [st EXCEPT !.remaining = Append(@, files[k]), !.raised = Append(@, files[k])])
    ELSE RemoveLoop(files, k + 1, force, fault, inf,
            RemoveOne(st, files[k], inf[files[k]].path))

\* the what_if branch: every file counted as removed, none remaining
RemoveDryRun(s, client_id, files) ==
    [state |-> s,
     ret |-> [op |-> "remove", success |-> TRUE, simulation |-> TRUE,
              removed_count |-> Len(files), remaining_files |-> <<>>,
              total_size_removed |-> SumSizes(files)]]

remove_files(s, client_id, files, what_if, force, fault) ==
    IF what_if THEN RemoveDryRun(s, client_id, files)
    ELSE
    LET st == RemoveLoop(files, 1, force, fault, s.info,
                 [disk |-> s.disk, registry |-> s.registry, removed |-> <<>>,
                  remaining |-> <<>>, total |-> 0, raised |-> <<>>, failed |-> FALSE])
    IN  IF st.failed
        \* the outer handler: a failure entry, and the failure result is returned
        THEN [state |-> [s EXCEPT !.disk = st.disk,
                                  !.registry = st.registry,
                                  !.log = log_operation(@,
                                      LogEntry(s.now, client_id, "FILES_REMOVAL_ERROR",
                                               <<>>, FALSE))],
              ret |-> [op |-> "remove", client_id |-> client_id,
                       files |-> [i \in 1..Len(files) |->
                                     IF i = fault.at THEN Foreign ELSE files[i]],
                       force |-> force, success |-> FALSE, simulation |-> FALSE,
                       error |-> TRUE, propagates |-> FALSE, raised |-> st.raised]]
        ELSE
        [state |-> [s EXCEPT !.disk = st.disk,
                             !.registry = st.registry,
                             !.log = log_operation(@,
                                 LogEntry(s.now, client_id, "FILES_REMOVED",
                                          <<Len(st.removed), Len(st.remaining)>>, TRUE))],
         ret |-> [op |-> "remove", client_id |-> client_id, files |-> files,
                  force |-> force, success |-> TRUE, simulation |-> FALSE,
                  error |-> FALSE, propagates |-> FALSE, raised |-> st.raised,
                  removed_count |-> Len(st.removed), remaining_files |-> st.remaining,
                  removed_files |-> st.removed, total_size_removed |-> st.total]]

(***************************************************************************)
(* archive_files                                                           *)
(***************************************************************************)
\* ArchiveOne without the os.remove of the original
ArchiveOne_KeepsOriginal(st, f, archive_file) ==
    [st EXCEPT !.entries = Append(@, st.info[f].path),
               !.info[f].archived = TRUE,
               !.info[f].path = archive_file,
               !.names = Append(@, f),
               !.total = @ + SizeOf(f)]

\* the body of the loop for a file found on disk: zipf.write, os.remove, then
\* archived = True and path = str(archive_file). Removing the zip that is being
\* written unlinks it (POSIX): it is gone when the with block closes it.
ArchiveOne(st, f, archive_file) ==
    [st EXCEPT !.entries = Append(@, st.info[f].path),
               !.disk = RemoveFile(@, st.info[f].path),
               !.info[f].archived = TRUE,
               !.info[f].path = archive_file,
               !.names = Append(@, f),
               !.total = @ + SizeOf(f)]

\* the loop inside the with zipfile.ZipFile(...) block; raised: zipf.write raised,
\* or os.remove did after the file went into the zip
RECURSIVE ArchiveLoop(_, _, _, _, _)
ArchiveLoop(files, k, fault, archive_file, st) ==
    IF k > Len(files) THEN st
    ELSE IF ~Exists(st.disk, st.info[files[k]].path)
    THEN ArchiveLoop(files, k + 1, fault, archive_file, st)
    ELSE IF Raises(fault, k, "write")
    THEN [st EXCEPT !.raised = TRUE]
    ELSE IF Raises(fault, k, "remove")
    THEN [st EXCEPT !.raised = TRUE, !.entries = Append(@, st.info[files[k]].path)]
    ELSE ArchiveLoop(files, k + 1, fault, archive_file,
            ArchiveOne(st, files[k], archive_file))

\* the what_if branch: nothing but the return value
ArchiveDryRun(s, client_id, files) ==
    [state |-> s,
     ret |-> [op |-> "archive", success |-> TRUE, simulation |-> TRUE,
              files_count |-> Len(files), total_size |-> SumSizes(files)]]

archive_files(s, client_id, files, what_if, fault) ==
    IF what_if THEN ArchiveDryRun(s, client_id, files)
    ELSE
    LET archive_file == ZipPath("archive", client_id, s.now)
        \* ZipFile(archive_file, 'w') creates or truncates the zip before the loop
        st == ArchiveLoop(files, 1, fault, archive_file,
                 [info |-> s.info, disk |-> WriteFile(s.disk, archive_file, <<>>),
                  entries |-> <<>>, names |-> <<>>, total |-> 0, raised |-> FALSE])
        \* closing the zip writes its entries, unless the loop unlinked it
        closed == IF Exists(st.disk, archive_file)
                  THEN WriteFile(st.disk, archive_file, st.entries)
                  ELSE st.disk
        after == [s EXCEPT !.dirs = @ \cup {[kind |-> "archive", client |-> client_id]},
                           !.disk = closed,
                           !.info = st.info]
    IN  IF st.raised
        THEN [state |-> [after EXCEPT !.log = log_operation(@,
                            LogEntry(s.now, client_id, "ARCHIVE_ERROR", <<>>, FALSE))],
              ret |-> [op |-> "archive", client_id |-> client_id, files |-> files,
                       success |-> FALSE, simulation |-> FALSE,
                       error |-> TRUE, propagates |-> FALSE]]
        ELSE [state |-> [after EXCEPT !.log = log_operation(@,
                            LogEntry(s.now, client_id, "FILES_ARCHIVED",
                                     <<Len(st.names)>>, TRUE))],
              ret |-> [op |-> "archive", client_id |-> client_id, files |-> files,
                       success |-> TRUE, simulation |-> FALSE,
                       error |-> FALSE, propagates |-> FALSE,
                       zip_path |-> archive_file, files_count |-> Len(st.names),
                       total_size |-> st.total, archived_files |-> st.names]]

(***************************************************************************)
(* get_storage_stats                                                       *)
(***************************************************************************)
\* file_type: the second component of the file_types pair of the extension
TypeOf(f) == IF f % 2 = 1 THEN "Document" ELSE "PDF Document"

\* the entry of key created as {"count": 0, "size": 0} if it is new, then
\* count += 1 and size += file_info.size
Tally(breakdown, key, size) ==
    [k \in DOMAIN breakdown \cup {key} |->
        LET old == IF k \in DOMAIN breakdown THEN breakdown[k]
                   ELSE [count |-> 0, size |-> 0]
        IN  IF k = key THEN [count |-> old.count + 1, size |-> old.size + size]
            ELSE old]

\* StatsOne without the count of archived records
StatsOne_NoArchived(stats, f, inf) ==
    [stats EXCEPT !.total_size = @ + SizeOf(f),
                  !.files_by_client = Tally(@, ClientOf(f), SizeOf(f)),
                  !.files_by_type = Tally(@, TypeOf(f), SizeOf(f)),
                  !.backed_up_files = IF inf[f].backed_up THEN @ + 1 ELSE @]

\* the body of the loop over self.files_registry.values()
StatsOne(stats, f, inf) ==
    [stats EXCEPT !.total_size = @ + SizeOf(f),
                  !.files_by_client = Tally(@, ClientOf(f), SizeOf(f)),
                  !.files_by_type = Tally(@, TypeOf(f), SizeOf(f)),
                  !.backed_up_files = IF inf[f].backed_up THEN @ + 1 ELSE @,
                  !.archived_files = IF inf[f].archived THEN @ + 1 ELSE @]

RECURSIVE StatsLoop(_, _, _, _)
StatsLoop(reg, k, inf, stats) ==
    IF k > Len(reg) THEN stats
    ELSE StatsLoop(reg, k + 1, inf, StatsOne(stats, reg[k].obj, inf))

get_storage_stats(s) ==
    StatsLoop(s.registry, 1, s.info,
        [total_files |-> Len(s.registry), total_size |-> 0,
         files_by_client |-> [k \in {} |-> 0], files_by_type |-> [k \in {} |-> 0],
         backed_up_files |-> 0, archived_files |-> 0])

(***************************************************************************)
(* The state machine.                                                      *)
(***************************************************************************)
EmptyDisk == [p \in {} |-> <<>>]

\* the state after s, with the call counted and its return value kept
Becomes(r) ==
    /\ files_registry' = r.state.registry
    /\ info' = r.state.info
    /\ objs' = r.state.objs
    /\ disk' = r.state.disk
    /\ dirs' = r.state.dirs
    /\ snapshot' = r.state.snapshot
    /\ operations_log' = r.state.log
    /\ now' = r.state.now
    /\ result' = r.ret

\* FileSystemSimulator() where there is no data file and no file on disk yet
Init ==
    LET c == Construct(NoFile, EmptyDisk, 1)
    IN  /\ files_registry = c.registry
        /\ info = c.info
        /\ objs = c.objs
        /\ disk = c.disk
        /\ dirs = {}
        /\ snapshot = c.snapshot
        /\ operations_log = c.log
        /\ now = 1
        /\ calls = 0
        /\ result = [op |-> "init", seeded |-> c.seeded, load_failed |-> c.load_failed,
                      inserted |-> c.inserted]

\* the clock moves on between two calls
Tick ==
    /\ now < MaxTime
    /\ now' = now + 1
    /\ UNCHANGED <<files_registry, info, objs, disk, dirs, snapshot, operations_log,
                   calls, result>>

BackupFiles ==
    \E client_id \in sample_clients, files \in FileLists(objs), what_if \in BOOLEAN :
        \E fault \in Faults(files, {"write"}) :
            /\ calls < MaxCalls
            /\ calls' = calls + 1
            /\ Becomes(backup_files(Cur, client_id, files, what_if, fault))

RemoveFiles ==
    \E client_id \in sample_clients, files \in FileLists(objs), what_if, force \in BOOLEAN :
        \E fault \in Faults(files, {"remove", "item"}) :
            /\ calls < MaxCalls
            \* the lists with a foreign object are those of real runs
            /\ what_if => fault.call # "item"
            /\ calls' = calls + 1
            /\ Becomes(remove_files(Cur, client_id, files, what_if, force, fault))

ArchiveFiles ==
    \E client_id \in sample_clients, files \in FileLists(objs), what_if \in BOOLEAN :
        \E fault \in Faults(files, {"write", "remove"}) :
            /\ calls < MaxCalls
            /\ calls' = calls + 1
            /\ Becomes(archive_files(Cur, client_id, files, what_if, fault))

GetClientFiles ==
    \E client_id \in sample_clients, file_pattern \in Patterns :
        /\ calls < MaxCalls
        /\ calls' = calls + 1
        /\ Becomes([state |-> Cur,
                    ret |-> [op |-> "get_client_files", client_id |-> client_id,
                             file_pattern |-> file_pattern,
                             files |-> get_client_files(Cur, client_id, file_pattern)]])

GetStorageStats ==
    /\ calls < MaxCalls
    /\ calls' = calls + 1
    /\ Becomes([state |-> Cur,
                ret |-> [op |-> "get_storage_stats", stats |-> get_storage_stats(Cur)]])

\* cleanup_and_save
cleanup_and_save(s) ==
    [state |-> [s EXCEPT !.snapshot = save_registry(s.registry, s.info, s.log)],
     ret |-> [op |-> "save"]]

SaveRegistry ==
    /\ Becomes(cleanup_and_save(Cur))
    /\ UNCHANGED calls

\* a new instance that keeps the registry and the log of the instance before it
NewInstance_KeepsMemory(s) ==
    [state |-> s,
     ret |-> [op |-> "init", seeded |-> FALSE, load_failed |-> FALSE, inserted |-> 0]]

\* FileSystemSimulator(): a fresh instance over the same data_file and base_path
NewInstance(s) ==
    LET c == Construct(s.snapshot, s.disk, s.now)
    IN  [state |-> [s EXCEPT !.registry = c.registry, !.info = c.info, !.objs = c.objs,
                             !.disk = c.disk, !.snapshot = c.snapshot, !.log = c.log],
         ret |-> [op |-> "init", seeded |-> c.seeded, load_failed |-> c.load_failed,
                  inserted |-> c.inserted]]

Restart ==
    /\ Becomes(NewInstance(Cur))
    /\ UNCHANGED calls

Next ==
    \/ Tick
    \/ BackupFiles
    \/ RemoveFiles
    \/ ArchiveFiles
    \/ GetClientFiles
    \/ GetStorageStats
    \/ SaveRegistry
    \/ Restart

Spec == Init /\ [][Next]_vars

(***************************************************************************)
(* Properties.                                                             *)
(***************************************************************************)
Registered(reg, f) == f \in Values(reg)

\* the step just taken is a non-dry-run call of the named operation
RealCall(op) == calls' = calls + 1 /\ result'.op = op /\ ~result'.simulation

\* C1: in a non-dry-run remove_files call where no os.remove raises, every file
\* of the list with force or backed_up is deleted from disk and from the
\* registry, and every other file is left on disk, left registered and returned
\* in remaining_files.
C1_RemoveStep ==
    (RealCall("remove") /\ result'.success /\ result'.raised = <<>>) =>
        \A k \in 1..Len(result'.files) :
            LET f == result'.files[k]
            IN  IF result'.force \/ info[f].backed_up
                THEN /\ ~Exists(disk', info[f].path)
                     /\ ~Registered(files_registry', f)
                     /\ f \notin SeqToSet(result'.remaining_files)
                ELSE /\ Exists(disk', info[f].path) = Exists(disk, info[f].path)
                     /\ Registered(files_registry', f) = Registered(files_registry, f)
                     /\ info'[f] = info[f]
                     /\ f \in SeqToSet(result'.remaining_files)

C1_RemovePolicy == [][C1_RemoveStep]_vars

\* C2: after a non-dry-run remove_files(files, force=true) where no os.remove
\* raises, none of the files is on disk and none is returned by get_client_files.
C2_ForceRemoveGone ==
    (result.op = "remove" /\ ~result.simulation /\ result.success /\ result.force
                          /\ result.raised = <<>>) =>
        \A k \in 1..Len(result.files) :
            /\ ~Exists(disk, info[result.files[k]].path)
            /\ \A client_id \in sample_clients :
                   result.files[k] \notin SeqToSet(get_client_files(Cur, client_id, <<"*">>))

\* C3 as stated: backup_files(files) followed by remove_files(files, force=false),
\* with no I/O error, removes exactly the files the backup included, and every
\* file the backup skipped as missing on disk is returned in remaining_files
\* and stays registered.
C3_BackupThenRemoveExact ==
    \A client_id \in sample_clients, files \in FileLists(objs) :
        LET b == backup_files(Cur, client_id, files, FALSE, NoFault)
            r == remove_files(b.state, client_id, files, FALSE, FALSE, NoFault)
            included == SeqToSet(b.ret.backed_up_files)
        IN  /\ SeqToSet(r.ret.removed_files) = included
            /\ \A f \in included : ~Exists(r.state.disk, info[f].path)
            /\ \A f \in SeqToSet(files) \ included :
                   /\ f \in SeqToSet(r.ret.remaining_files)
                   /\ Registered(files_registry, f) => Registered(r.state.registry, f)

\* C3 amended: backup_files(files) followed by remove_files(files, force=false)
\* reports as removed, and deletes from disk, exactly the files whose backed_up
\* flag is true after the backup (those the backup included and those an earlier
\* backup had flagged, also when this backup skipped them) and whose os.remove
\* does not raise; every other file is returned in remaining_files, and the
\* registry loses exactly the entries whose key is the path of a removed file.
C3_BackupThenRemoveFlagged ==
    \A client_id \in sample_clients, files \in FileLists(objs) :
        \A fault \in Faults(files, {"remove"}) :
            LET b == backup_files(Cur, client_id, files, FALSE, NoFault)
                r == remove_files(b.state, client_id, files, FALSE, FALSE, fault)
                included == SeqToSet(b.ret.backed_up_files)
                flagged == {f \in SeqToSet(files) : f \in included \/ info[f].backed_up}
                removed == flagged \ SeqToSet(r.ret.raised)
            IN  /\ \A f \in SeqToSet(files) : b.state.info[f].backed_up = (f \in flagged)
                /\ SeqToSet(r.ret.removed_files) = removed
                /\ SeqToSet(r.ret.remaining_files) = SeqToSet(files) \ removed
                /\ SeqToSet(r.ret.raised) \subseteq included
                /\ \A f \in removed : ~Exists(r.state.disk, info[f].path)
                /\ r.state.registry =
                       SelectSeq(files_registry,
                                 LAMBDA it : it.key \notin {info[f].path : f \in removed})

\* a remove has made a backed-up file disappear from disk, and a backup followed
\* by remove_files(force=false) of a list then removes an included file and a
\* file the backup skips
C3_Witness ==
    /\ result.op = "remove" /\ ~result.simulation /\ result.success
    /\ \E client_id \in sample_clients, files \in FileLists(objs) :
           LET b == backup_files(Cur, client_id, files, FALSE, NoFault)
               r == remove_files(b.state, client_id, files, FALSE, FALSE, NoFault)
               included == SeqToSet(b.ret.backed_up_files)
           IN  /\ included # {}
               /\ \E f \in SeqToSet(files) \ included : f \in SeqToSet(r.ret.removed_files)

\* C4: after a successful non-dry-run archive_files call every file of the list
\* that the call found on disk is gone from its path, has archived = true and
\* has the zip of the call as its path; archiving the same list again for the
\* same client changes none of this.
C4_ArchiveStep ==
    (RealCall("archive") /\ result'.success) =>
        /\ \A f \in SeqToSet(result'.archived_files) :
               /\ ~Exists(disk', info[f].path)
               /\ info'[f].archived
               /\ info'[f].path = result'.zip_path
        /\ (/\ result.op = "archive" /\ ~result.simulation /\ result.success
            /\ result.files = result'.files /\ result.client_id = result'.client_id) =>
               \A f \in SeqToSet(result'.files) :
                   (info[f].archived /\ info[f].path = result.zip_path) =>
                       /\ info'[f].archived
                       /\ info'[f].path = info[f].path
                       /\ ~Exists(disk', FilePath(f))

C4_ArchiveIdempotent == [][C4_ArchiveStep]_vars

\* C5: no two records of the registry have the same path.
C5_PathsUnique ==
    \A i, j \in 1..Len(files_registry) :
        i # j => info[files_registry[i].obj].path # info[files_registry[j].obj].path

\* C6: no registered record is archived while a live file is on disk at its
\* original path.
C6_LiveOrArchived ==
    \A f \in Values(files_registry) : ~(Exists(disk, FilePath(f)) /\ info[f].archived)

\* an archive call has archived a registered record
C6_Witness ==
    /\ result.op = "archive" /\ ~result.simulation /\ result.success
    /\ \E f \in SeqToSet(result.files) :
           /\ Registered(files_registry, f) /\ info[f].archived
           /\ ~Exists(disk, FilePath(f))

\* C7: the operation log never holds more than 1000 entries.
C7_LogBounded == Len(operations_log) <= MaxLogEntries

\* C8: a dry-run call of backup_files, remove_files or archive_files changes
\* nothing: registry, records, files, zips and directories on disk, snapshot
\* and operation log are as before.
C8_DryRunStep ==
    (calls' = calls + 1 /\ result'.op \in {"backup", "remove", "archive"}
                        /\ result'.simulation) =>
        UNCHANGED <<files_registry, info, objs, disk, dirs, snapshot, operations_log>>

Present(s, files) == SelectSeq(files, LAMBDA f : Exists(s.disk, s.info[f].path))

\* C9: a successful non-dry-run backup_files call writes exactly one zip and
\* touches no other file; the zip has one entry per file of the list that is on
\* disk; exactly these records get backed_up = true and no other record changes;
\* files_count and total_size are the number and the summed size of these files.
C9_BackupResult ==
    \A client_id \in sample_clients, files \in FileLists(objs) :
        \A fault \in Faults(files, {"write"}) :
            LET r == backup_files(Cur, client_id, files, FALSE, fault)
                included == Present(Cur, files)
                zip == ZipPath("backup", client_id, now)
            IN  r.ret.success =>
                    /\ r.ret.zip_path = zip
                    /\ DOMAIN r.state.disk = DOMAIN disk \cup {zip}
                    /\ \A p \in DOMAIN disk \ {zip} : r.state.disk[p] = disk[p]
                    /\ r.state.disk[zip] = [k \in 1..Len(included) |-> info[included[k]].path]
                    /\ \A f \in FileIds :
                           r.state.info[f] =
                               IF f \in SeqToSet(included)
                               THEN [info[f] EXCEPT !.backed_up = TRUE]
                               ELSE info[f]
                    /\ r.ret.backed_up_files = included
                    /\ r.ret.files_count = Len(included)
                    /\ r.ret.total_size = SumSizes(included)

\* a backup has succeeded that put a file in the zip and skipped another one
C9_Witness ==
    /\ result.op = "backup" /\ ~result.simulation /\ result.success
    /\ result.files_count > 0
    /\ result.files_count < Len(result.files)
    /\ Len(disk[result.zip_path]) = result.files_count

RecordsOf(reg, inf) == {RecordOf(reg[i].obj, inf) : i \in 1..Len(reg)}

\* C10: save_registry followed by load_registry on a fresh instance gives the
\* same file records (path, size, checksum, flags), as many of them, and the
\* same log entries in the same order.
C10_RoundTripStep ==
    (result.op = "save" /\ result'.op = "init" /\ ~result'.seeded) =>
        /\ RecordsOf(files_registry', info') = RecordsOf(files_registry, info)
        /\ Len(files_registry') = Len(files_registry)
        /\ operations_log' = operations_log

C10_RoundTrip == [][C10_RoundTripStep]_vars

\* C11: a non-dry-run remove_files call that fails at the operation boundary
\* appends a failure entry (success = false) to the operation log and re-raises
\* the exception to its caller instead of returning a result.
C11_RemoveFailureStep ==
    (RealCall("remove") /\ ~result'.success) =>
        /\ operations_log' =
               log_operation(operations_log,
                   LogEntry(now, result'.client_id, "FILES_REMOVAL_ERROR", <<>>, FALSE))
        /\ result'.propagates

C11_RemoveReraises == [][C11_RemoveFailureStep]_vars

\* the operation_type of the failure entry of an operation
ErrorTag(op) == IF op = "backup" THEN "BACKUP_ERROR" ELSE "ARCHIVE_ERROR"

\* C12: a backup_files or archive_files call that fails does not raise: it
\* appends exactly one entry to the log, a failure entry (success = false) tagged
\* BACKUP_ERROR or ARCHIVE_ERROR, and returns a result with success = false and
\* the error text.
C12_FailureStep ==
    (calls' = calls + 1 /\ result'.op \in {"backup", "archive"} /\ ~result'.success) =>
        /\ ~result'.propagates
        /\ result'.error
        /\ operations_log' =
               Append(operations_log,
                      LogEntry(now, result'.client_id, ErrorTag(result'.op), <<>>, FALSE))

C12_FailureReturned == [][C12_FailureStep]_vars

\* an archive_files call has failed after a backup_files call had, and the log
\* ends with the two failure entries
C12_Witness ==
    /\ result.op = "archive" /\ ~result.success
    /\ Len(operations_log) >= 2
    /\ operations_log[Len(operations_log)].operation_type = "ARCHIVE_ERROR"
    /\ operations_log[Len(operations_log) - 1].operation_type = "BACKUP_ERROR"

\* C13: every call of get_client_files, backup_files, remove_files and
\* archive_files appends an entry to the operation log before it returns.
C13_LogStep ==
    (calls' = calls + 1
        /\ result'.op \in {"get_client_files", "backup", "remove", "archive"}) =>
        /\ Len(operations_log') = Len(operations_log) + 1
        /\ SubSeq(operations_log', 1, Len(operations_log)) = operations_log
        /\ operations_log'[Len(operations_log')].client_id = result'.client_id

TagOf(op, success) ==
    CASE op = "backup" -> IF success THEN "BACKUP_CREATED" ELSE "BACKUP_ERROR"
      [] op = "remove" -> IF success THEN "FILES_REMOVED" ELSE "FILES_REMOVAL_ERROR"
      [] op = "archive" -> IF success THEN "FILES_ARCHIVED" ELSE "ARCHIVE_ERROR"

\* C13 amended: every non-dry-run call of backup_files, remove_files and
\* archive_files appends exactly one entry to the operation log before it
\* returns, a success or a failure entry as the call succeeded or failed, tagged
\* by the operation type and carrying the client_id of the call; a call of
\* get_client_files and a dry-run call append nothing.
C13_RealCallLogsStep ==
    (calls' = calls + 1
        /\ result'.op \in {"get_client_files", "backup", "remove", "archive"}) =>
        IF result'.op # "get_client_files" /\ ~result'.simulation
        THEN /\ Len(operations_log') = Len(operations_log) + 1
             /\ SubSeq(operations_log', 1, Len(operations_log)) = operations_log
             /\ LET entry == operations_log'[Len(operations_log')]
                IN  /\ entry.client_id = result'.client_id
                    /\ entry.operation_type = TagOf(result'.op, result'.success)
                    /\ entry.success = result'.success
                    /\ entry.timestamp = now
        ELSE operations_log' = operations_log

C14_DryRunRemovePolicy ==
    \A client_id \in sample_clients, files \in FileLists(objs), force \in BOOLEAN :
        (\A f \in SeqToSet(files) : Exists(disk, info[f].path)) =>
            LET dry == remove_files(Cur, client_id, files, TRUE, force, NoFault).ret
                real == remove_files(Cur, client_id, files, FALSE, force, NoFault).ret
            IN  /\ dry.removed_count = real.removed_count
                /\ dry.remaining_files = real.remaining_files
                /\ dry.total_size_removed = real.total_size_removed

\* sub occurs in str at some position when upper and lower case are not told apart
OccursIgnoringCase(sub, str) ==
    \E i \in 0..(Len(str) - Len(sub)) :
        \A j \in 1..Len(sub) : LowerChar(sub[j]) = LowerChar(str[i + j])

\* C17: get_client_files(client_id, pattern) returns exactly the registered
\* records of the client whose name contains the pattern as a case-insensitive
\* substring, every record of the client when the pattern is "*", each once, and
\* changes neither the registry, the records, the disk nor the operation log.
C17_QueryStep ==
    (calls' = calls + 1 /\ result'.op = "get_client_files") =>
        /\ SeqToSet(result'.files) =
               {f \in Values(files_registry) :
                   /\ ClientOf(f) = result'.client_id
                   /\ \/ result'.file_pattern = <<"*">>
                      \/ OccursIgnoringCase(result'.file_pattern, NameOf(f))}
        /\ Cardinality(SeqToSet(result'.files)) = Len(result'.files)
        /\ UNCHANGED <<files_registry, info, objs, disk, dirs, snapshot, operations_log>>

C17_QueryFilter == [][C17_QueryStep]_vars

\* a query with a pattern in another case than the names has returned a record
\* after an earlier call had changed the registry
C17_Witness ==
    /\ result.op = "get_client_files"
    /\ result.file_pattern = <<".", "D", "O", "C">>
    /\ result.files # <<>>
    /\ Len(files_registry) < MaxFiles

\* C19: once a record has archived = true, no later call of backup_files,
\* archive_files or remove_files, with any flags, changes its flags or its path,
\* removes it from the registry or deletes the zip it references.
C19_ArchivedStep ==
    (calls' = calls + 1 /\ result'.op \in {"backup", "archive", "remove"}) =>
        \A f \in objs :
            info[f].archived =>
                /\ info'[f] = info[f]
                /\ Registered(files_registry, f) => Registered(files_registry', f)
                /\ Exists(disk, info[f].path) => Exists(disk', info[f].path)

C19_ArchivedTerminal == [][C19_ArchivedStep]_vars

(***************************************************************************)
(* The operation log on its own: log_operation called on a simulator built *)
(* over a snapshot file that something else left in place.                 *)
(***************************************************************************)
\* the log entries of a snapshot file found at start-up
ExternalLog(n) == [i \in 1..n |-> LogEntry(0, "SYSTEM", "LOADED", <<i>>, TRUE)]

LogLengths == {0, MaxLogEntries - 1, MaxLogEntries, MaxLogEntries + 1}

InitLog ==
    \E n \in LogLengths :
        LET seeded == Construct(NoFile, EmptyDisk, 1)
            found == [seeded.snapshot EXCEPT !.operations_log = ExternalLog(n)]
            c == Construct(found, seeded.disk, 1)
        IN  /\ files_registry = c.registry
            /\ info = c.info
            /\ objs = c.objs
            /\ disk = c.disk
            /\ dirs = {}
            /\ snapshot = c.snapshot
            /\ operations_log = c.log
            /\ now = 1
            /\ calls = 0
            /\ result = [op |-> "init", seeded |-> c.seeded, load_failed |-> c.load_failed,
                      inserted |-> c.inserted]

LogOperation ==
    \E client_id \in sample_clients, success \in BOOLEAN :
        /\ calls < MaxLogSteps
        /\ calls' = calls + 1
        /\ operations_log' = log_operation(operations_log,
               LogEntry(now, client_id, "CALL", <<calls>>, success))
        /\ result' = [op |-> "log"]
        /\ UNCHANGED <<files_registry, info, objs, disk, dirs, snapshot, now>>

NextLog ==
    \/ LogOperation
    \/ SaveRegistry
    \/ Restart

SpecLog == InitLog /\ [][NextLog]_vars
(***************************************************************************)
(* Start-up: a simulator constructed over the data file and the files that *)
(* are found in place, and the data file damaged between two runs.         *)
(***************************************************************************)
\* a record as an earlier run saved it
FoundRecord(f, archived, backed_up) ==
    [name |-> f,
     path |-> IF archived THEN ZipPath("archive", ClientOf(f), 0) ELSE FilePath(f),
     size |-> SizeOf(f), checksum |-> ChecksumOf(f),
     archived |-> archived, backed_up |-> backed_up]

FoundSnapshots ==
    {NoFile} \cup
    {[files |-> [i \in 1..Len(files) |->
                    FoundRecord(files[i], files[i] \in archived, files[i] \in backed_up)],
      operations_log |-> ExternalLog(n), exists |-> TRUE, corrupt |-> k] :
        files \in FileLists(FileIds), archived \in SUBSET FileIds,
        backed_up \in SUBSET FileIds, n \in 0..1, k \in -1..MaxFiles}

\* the sample files found under base_path, with the content something else gave them
FoundDisks ==
    {[p \in {FilePath(f) : f \in present} |-> <<"other">>] : present \in SUBSET FileIds}

InitLoad ==
    \E found \in FoundSnapshots, dsk \in FoundDisks :
        LET c == Construct(found, dsk, 1)
        IN  /\ files_registry = c.registry
            /\ info = c.info
            /\ objs = c.objs
            /\ disk = c.disk
            /\ dirs = {}
            /\ snapshot = c.snapshot
            /\ operations_log = c.log
            /\ now = 1
            /\ calls = 0
            /\ result = [op |-> "init", seeded |-> c.seeded, load_failed |-> c.load_failed,
                      inserted |-> c.inserted]

\* the data file is damaged (a write that failed half-way, an edit by hand)
CorruptSnapshot ==
    \E k \in {-1} \cup 1..Len(snapshot.files) :
        /\ snapshot.exists
        /\ snapshot.corrupt = 0
        /\ snapshot' = [snapshot EXCEPT !.corrupt = k]
        /\ result' = [op |-> "corrupt"]
        /\ UNCHANGED <<files_registry, info, objs, disk, dirs, operations_log, now, calls>>

NextLoad ==
    \/ CorruptSnapshot
    \/ SaveRegistry
    \/ Restart

SpecLoad == InitLoad /\ [][NextLoad]_vars

\* C15: load_registry over a data file whose reading fails, in json.load or at
\* any of its records, does not raise and leaves the registry and the operation
\* log empty: no record loaded before the failure stays registered, and the
\* instance is seeded like one that found no data file.
C15_LoadFailureStep ==
    (result'.op = "init" /\ snapshot.exists /\ snapshot.corrupt # 0) =>
        /\ load_registry(snapshot).registry = <<>>
        /\ load_registry(snapshot).log = <<>>
        /\ result'.load_failed
        /\ result'.seeded
        /\ files_registry' = SeedLoop(1, <<>>)
        /\ operations_log' = <<LogEntry(now, "SYSTEM", "INIT", <<MaxFiles>>, TRUE)>>

C15_LoadFailureEmpties == [][C15_LoadFailureStep]_vars

\* a simulator has been constructed over a data file whose second record failed
\* to load after the first one had been registered
C15_Witness ==
    /\ result.op = "init" /\ result.load_failed /\ result.seeded
    /\ result.inserted >= 1
    /\ Len(files_registry) = MaxFiles
    /\ operations_log = <<LogEntry(now, "SYSTEM", "INIT", <<MaxFiles>>, TRUE)>>

\* the construction just made left everything it found as it was: no
\* seeding, no file created, overwritten or registered anew, the registry made
\* of records of the data file and the log that of the data file
LoadedOnly ==
    /\ ~result'.seeded
    /\ disk' = disk
    /\ snapshot' = snapshot
    /\ operations_log' = snapshot.operations_log
    /\ Len(files_registry') >= 1
    /\ \A i \in 1..Len(files_registry') :
           /\ RecordOf(files_registry'[i].obj, info') \in SeqToSet(snapshot.files)
           /\ files_registry'[i].key = info'[files_registry'[i].obj].path

\* C16 as stated: constructing a simulator over a data file that holds at least
\* one record (a JSON document with a non-empty list of files) never seeds: it creates, overwrites and re-registers no file and
\* leaves the loaded registry and log as they are.
C16_NoSeedStep ==
    (result'.op = "init" /\ snapshot.exists /\ snapshot.corrupt # -1
                         /\ Len(snapshot.files) >= 1) => LoadedOnly

C16_NoSeedOverRecords == [][C16_NoSeedStep]_vars

\* C16 amended: seeding runs exactly when the registry is empty after
\* load_registry. Constructing a simulator over a data file that holds at least
\* one record and loads without a failure never seeds, creates, overwrites or
\* re-registers a file and leaves the loaded registry and log as they are; over
\* a data file whose reading fails, however many records it holds, the
\* simulator seeds as over no data file.
C16_SeedIffEmptyStep ==
    (result'.op = "init") =>
        /\ result'.seeded = (result'.load_failed \/ result'.inserted = 0)
        /\ (snapshot.exists /\ Len(snapshot.files) >= 1 /\ snapshot.corrupt = 0) => LoadedOnly
        /\ (snapshot.exists /\ snapshot.corrupt # 0) =>
               /\ result'.seeded
               /\ \A f \in FileIds : Exists(disk', FilePath(f)) /\ disk'[FilePath(f)] = <<>>

C16_SeedIffEmpty == [][C16_SeedIffEmptyStep]_vars

\* a simulator has been constructed over a data file with a record and a log
\* entry, without seeding, next to a file that something else had written
C16_Witness ==
    /\ result.op = "init" /\ ~result.seeded /\ ~result.load_failed
    /\ result.inserted >= 1
    /\ operations_log = ExternalLog(1)
    /\ \E f \in FileIds : Exists(disk, FilePath(f)) /\ disk[FilePath(f)] = <<"other">>

(***************************************************************************)
(* Queries of the operation log: get_client_operations on a simulator      *)
(* constructed over a data file whose log earlier runs have written.       *)
(***************************************************************************)
\* logs of an earlier run; clocks set back between two entries are included
FoundLogs ==
    {[i \in 1..Len(x) |-> LogEntry(x[i][2], x[i][1], "LOADED", <<i>>, TRUE)] :
        x \in UNION {[1..n -> sample_clients \X (1..MaxStamp)] : n \in 0..MaxLogLen}}

Limits == 0..MaxLimit

InitOps ==
    \E log \in FoundLogs :
        LET seeded == Construct(NoFile, EmptyDisk, 1)
            found == [seeded.snapshot EXCEPT !.operations_log = log]
            c == Construct(found, seeded.disk, 1)
        IN  /\ files_registry = c.registry
            /\ info = c.info
            /\ objs = c.objs
            /\ disk = c.disk
            /\ dirs = {}
            /\ snapshot = c.snapshot
            /\ operations_log = c.log
            /\ now = 1
            /\ calls = 0
            /\ result = [op |-> "init", seeded |-> c.seeded, load_failed |-> c.load_failed,
                          inserted |-> c.inserted]

GetClientOperations ==
    \E client_id \in sample_clients, limit \in Limits :
        /\ calls < MaxCalls
        /\ calls' = calls + 1
        /\ Becomes([state |-> Cur,
                    ret |-> [op |-> "get_client_operations", client_id |-> client_id,
                             limit |-> limit,
                             entries |-> get_client_operations(operations_log, client_id,
                                                               limit)]])

NextOps == GetClientOperations

SpecOps == InitOps /\ [][NextOps]_vars

\* the positions in the log of the entries of a client
PositionsOf(log, client_id) == {i \in 1..Len(log) : log[i].client_id = client_id}

\* C18: get_client_operations(client_id, limit) returns only entries of the log
\* whose client_id is the argument, each at most once, ordered by timestamp with
\* the most recent first, and at most limit of them; when the client has more
\* than limit entries it returns exactly limit, and none it leaves out is more
\* recent than one it returns.
C18_OperationsStep ==
    (calls' = calls + 1 /\ result'.op = "get_client_operations") =>
        LET entries == result'.entries
            mine == PositionsOf(operations_log, result'.client_id)
            returned == {i \in mine : operations_log[i] \in SeqToSet(entries)}
        IN  /\ \A k \in 1..Len(entries) : entries[k].client_id = result'.client_id
            /\ SeqToSet(entries) \subseteq {operations_log[i] : i \in mine}
            /\ Cardinality(SeqToSet(entries)) = Len(entries)
            /\ \A k \in 1..(Len(entries) - 1) :
                   entries[k].timestamp >= entries[k + 1].timestamp
            /\ Len(entries) <= result'.limit
            /\ Cardinality(mine) <= result'.limit => Len(entries) = Cardinality(mine)
            /\ Cardinality(mine) > result'.limit =>
                   /\ Len(entries) = result'.limit
                   /\ \A i \in mine \ returned, j \in returned :
                          operations_log[i].timestamp <= operations_log[j].timestamp
            /\ UNCHANGED operations_log

C18_OperationsQuery == [][C18_OperationsStep]_vars

\* a query has returned two of the three entries of a client, the most recent
\* one first, from a log that was not in the order of its timestamps
C18_Witness ==
    /\ result.op = "get_client_operations"
    /\ result.limit = 2
    /\ Cardinality(PositionsOf(operations_log, result.client_id)) = 3
    /\ Len(result.entries) = 2
    /\ result.entries[1].timestamp > result.entries[2].timestamp
    /\ operations_log[1].timestamp > operations_log[2].timestamp
    /\ operations_log[2].timestamp < operations_log[3].timestamp

(***************************************************************************)
(* The request handlers src/lambda/src/database_manager/handler.py and     *)
(* src/lambda/src/contract_processor/handler.py: lambda_handler and the    *)
(* handlers it routes to. A response is the statusCode and the decoded     *)
(* JSON body; handler names the function that built it.                    *)
(***************************************************************************)
\* a key of a JSON object: absent, or present with a value
Absent == [present |-> FALSE]
Value(v) == [present |-> TRUE, v |-> v]
\* dict.get(key, default)
Get(field, default) == IF field.present THEN field.v ELSE default
\* not value, for dict.get(key): None and the empty string are false
Falsy(field) == ~field.present \/ field.v = <<>>

\* str.startswith('CT')
StartsWithCT(str) == Len(str) >= 2 /\ SubSeq(str, 1, 2) = <<"C", "T">>

DatabaseActions ==
    {"create_contract", "get_contract", "update_contract", "list_contracts",
     "create_audit_log"}
ProcessorActions == {"terminate_contract", "validate_contract", "process_contract"}
Services == {"database_manager", "contract_processor"}
ActionsOf(service) ==
    IF service = "database_manager" THEN DatabaseActions ELSE ProcessorActions

create_error_response(handler, status_code, error) ==
    [handler |-> handler, statusCode |-> status_code, status |-> "error", error |-> error]

create_success_response(handler, data) ==
    [handler |-> handler, statusCode |-> 200, status |-> "success", data |-> data]

handle_create_contract(body) ==
    LET contract_data == Get(body.contract_data, [contract_id |-> Absent])
    IN  IF Falsy(contract_data.contract_id)
        THEN create_error_response("handle_create_contract", 400, "MISSING_CONTRACT_ID")
        ELSE create_success_response("handle_create_contract",
                 [contract_id |-> contract_data.contract_id.v, status |-> "CREATED"])

handle_get_contract(body) ==
    IF Falsy(body.contract_id)
    THEN create_error_response("handle_get_contract", 400, "MISSING_CONTRACT_ID")
    ELSE IF StartsWithCT(body.contract_id.v)
    THEN create_success_response("handle_get_contract",
             [contract_id |-> body.contract_id.v, status |-> "ACTIVE"])
    ELSE create_error_response("handle_get_contract", 404, "CONTRACT_NOT_FOUND")

handle_update_contract(body) ==
    IF Falsy(body.contract_id)
    THEN create_error_response("handle_update_contract", 400, "MISSING_CONTRACT_ID")
    ELSE create_success_response("handle_update_contract",
             [contract_id |-> body.contract_id.v, status |-> "UPDATED"])

\* range(min(page_size, 5)): the number of sample contracts returned
SampleCount(page_size) == IF page_size < 0 THEN 0 ELSE IF page_size < 5 THEN page_size ELSE 5

handle_list_contracts(body) ==
    LET page == Get(body.page, 1)
        page_size == Get(body.page_size, 10)
    IN  create_success_response("handle_list_contracts",
            [contracts |-> SampleCount(page_size),
             pagination |-> [current_page |-> page, page_size |-> page_size,
                             total_items |-> 25, total_pages |-> 3,
                             has_next |-> page < 3, has_previous |-> page > 1]])

handle_create_audit_log(body) ==
    IF Falsy(body.contract_id) \/ Falsy(body.audit_action)
    THEN create_error_response("handle_create_audit_log", 400, "MISSING_REQUIRED_FIELDS")
    ELSE create_success_response("handle_create_audit_log",
             [contract_id |-> body.contract_id.v, action |-> body.audit_action.v,
              status |-> "LOGGED"])

handle_contract_termination(body) ==
    IF Falsy(body.contract_id)
    THEN create_error_response("handle_contract_termination", 400, "MISSING_CONTRACT_ID")
    ELSE create_success_response("handle_contract_termination",
             [contract_id |-> body.contract_id.v, status |-> "TERMINATED"])

handle_contract_validation(body) ==
    LET contract_data == Get(body.contract_data,
                             [contract_id |-> Absent, client_id |-> Absent,
                              contract_type |-> Absent])
    IN  IF \/ Falsy(contract_data.contract_id)
           \/ Falsy(contract_data.client_id)
           \/ Falsy(contract_data.contract_type)
        THEN create_error_response("handle_contract_validation", 400, "VALIDATION_ERROR")
        ELSE IF ~StartsWithCT(contract_data.contract_id.v)
        THEN create_error_response("handle_contract_validation", 400, "VALIDATION_ERROR")
        ELSE create_success_response("handle_contract_validation",
                 [valid |-> TRUE, contract_id |-> contract_data.contract_id.v])

\* Route with every action sent to the first handler of the chain
Route_FirstHandler(service, action, body) ==
    IF service = "database_manager"
    THEN handle_create_contract(body)
    ELSE handle_contract_termination(body)

handle_contract_processing(body) ==
    create_success_response("handle_contract_processing",
        [contract_id |-> body.contract_id, status |-> "PROCESSED"])

\* the if/elif chain of a lambda_handler
Route(service, action, body) ==
    IF service = "database_manager"
    THEN CASE action = "create_contract" -> handle_create_contract(body)
           [] action = "get_contract" -> handle_get_contract(body)
           [] action = "update_contract" -> handle_update_contract(body)
           [] action = "list_contracts" -> handle_list_contracts(body)
           [] action = "create_audit_log" -> handle_create_audit_log(body)
           [] OTHER -> create_error_response("lambda_handler", 400, "INVALID_ACTION")
    ELSE CASE action = "terminate_contract" -> handle_contract_termination(body)
           [] action = "validate_contract" -> handle_contract_validation(body)
           [] action = "process_contract" -> handle_contract_processing(body)
           [] OTHER -> create_error_response("lambda_handler", 400, "INVALID_ACTION")

\* an event: body absent, None, a str (json: "malformed", an "array", an
\* "object") or a dict; fields: the keys of the object
lambda_handler(service, event) ==
    IF event.form = "absent"
    \* event.get('body', {}) is the default {}
    THEN create_error_response("lambda_handler", 400, "INVALID_ACTION")
    ELSE IF event.form = "null" \/ (event.form = "text" /\ event.json # "object")
    \* json.loads or body.get raises: the except branch
    THEN create_error_response("lambda_handler", 500, "INTERNAL_SERVER_ERROR")
    ELSE Route(service, Get(event.fields.action, "unknown"), event.fields)

\* the values of the keys of the request bodies
ContractIds == {<<>>, <<"C", "T", "1">>, <<"X", "1">>}

ActionValues ==
    {Absent} \cup
    {Value(a) : a \in DatabaseActions \cup ProcessorActions
                         \cup {"invalid_action", "", "CREATE_CONTRACT", "unknown"}}

ContractDataValues ==
    {Absent} \cup
    {Value([contract_id |-> c, client_id |-> cl, contract_type |-> Value(<<"S">>)]) :
        c \in {Absent, Value(<<"C", "T", "1">>), Value(<<"X", "1">>)},
        cl \in {Absent, Value(<<"C", "L">>)}}

\* the keys the handler of an action reads
Reads(action) ==
    CASE action \in {"create_contract", "validate_contract"} -> {"contract_data"}
      [] action \in {"get_contract", "update_contract", "terminate_contract",
                     "process_contract"} -> {"contract_id"}
      [] action = "list_contracts" -> {"page", "page_size"}
      [] action = "create_audit_log" -> {"contract_id", "audit_action"}
      [] OTHER -> {}

\* the JSON objects sent as body: the keys no handler reads are left out
Bodies ==
    {b \in [action : ActionValues,
            contract_id : {Absent} \cup {Value(c) : c \in ContractIds},
            audit_action : {Absent, Value(<<"E", "N", "D">>)},
            contract_data : ContractDataValues,
            page : {Absent, Value(1), Value(3)},
            page_size : {Absent, Value(3), Value(10)}] :
        \A key \in {"contract_id", "audit_action", "contract_data", "page", "page_size"} :
            key \notin Reads(Get(b.action, "unknown")) => b[key] = Absent}

Events ==
    {[form |-> "absent"], [form |-> "null"],
     [form |-> "text", json |-> "malformed"], [form |-> "text", json |-> "array"]}
    \cup {[form |-> "text", json |-> "object", fields |-> b] : b \in Bodies}
    \cup {[form |-> "dict", fields |-> b] : b \in Bodies}

LambdaHandler ==
    \E service \in Services, event \in Events :
        /\ calls < MaxRequests
        /\ calls' = calls + 1
        /\ result' = [op |-> "lambda_handler", service |-> service, event |-> event,
                      response |-> lambda_handler(service, event)]
        /\ UNCHANGED <<files_registry, info, objs, disk, dirs, snapshot, operations_log, now>>

NextLambda == LambdaHandler

SpecLambda == Init /\ [][NextLambda]_vars

\* the handler an action names
HandlerOf(action) ==
    CASE action = "create_contract" -> "handle_create_contract"
      [] action = "get_contract" -> "handle_get_contract"
      [] action = "update_contract" -> "handle_update_contract"
      [] action = "list_contracts" -> "handle_list_contracts"
      [] action = "create_audit_log" -> "handle_create_audit_log"
      [] action = "terminate_contract" -> "handle_contract_termination"
      [] action = "validate_contract" -> "handle_contract_validation"
      [] action = "process_contract" -> "handle_contract_processing"

\* the request has a body that is a JSON object, as a string or as a dict
HasObject(event) ==
    event.form = "dict" \/ (event.form = "text" /\ event.json = "object")

\* the action of the request is one the service handles
Handled(service, event) ==
    /\ HasObject(event)
    /\ event.fields.action.present
    /\ event.fields.action.v \in ActionsOf(service)

InvalidAction(response) ==
    /\ response.statusCode = 400
    /\ response.error = "INVALID_ACTION"
    /\ response.status = "error"

\* C20 as stated: a request whose action is one of the names the handler
\* handles is dispatched to the handler of that action; every other request
\* (no action, or any other string) gets 400, INVALID_ACTION, status 'error'.
C20_RouteStep ==
    (calls' = calls + 1 /\ result'.op = "lambda_handler") =>
        IF Handled(result'.service, result'.event)
        THEN result'.response.handler = HandlerOf(result'.event.fields.action.v)
        ELSE InvalidAction(result'.response)

C20_RouteOrInvalid == [][C20_RouteStep]_vars

\* C20 amended: a request whose body is a JSON object (a JSON string or a
\* dict) is dispatched to the handler of its action when the action is one the
\* service handles, and gets 400, INVALID_ACTION, status 'error' when the action
\* is missing or anything else; so does a request with no body key. A request
\* whose body is None, is not JSON or is not a JSON object gets 500,
\* INTERNAL_SERVER_ERROR, status 'error'.
C20_RouteObjectStep ==
    (calls' = calls + 1 /\ result'.op = "lambda_handler") =>
        LET event == result'.event
            response == result'.response
        IN  IF Handled(result'.service, event)
            THEN response.handler = HandlerOf(event.fields.action.v)
            ELSE IF HasObject(event) \/ event.form = "absent"
            THEN InvalidAction(response)
            ELSE /\ response.statusCode = 500
                 /\ response.error = "INTERNAL_SERVER_ERROR"
                 /\ response.status = "error"

C20_RouteObject == [][C20_RouteObjectStep]_vars

\* a second request, a JSON string naming an action of the other service, has
\* got INVALID_ACTION after a first one had been dispatched
C20_Witness ==
    /\ result.op = "lambda_handler" /\ calls = 2
    /\ result.event.form = "text" /\ result.event.json = "object"
    /\ result.service = "contract_processor"
    /\ result.event.fields.action = Value("create_contract")
    /\ InvalidAction(result.response)

\* ---------------------------------------------------------------------------
\* list_contracts paging

\* the number of contracts on page p of 25 contracts, s to a page
PageCount(p, s) ==
    LET left == 25 - (p - 1) * s
    IN  IF left < 0 THEN 0 ELSE IF s < left THEN s ELSE left

ListRequest(service, event) ==
    /\ service = "database_manager"
    /\ HasObject(event)
    /\ event.fields.action = Value("list_contracts")

\* C21: list_contracts pages over 25 contracts in 3 pages: for page p and
\* page_size s the response holds min(s, max(0, 25 - (p-1)*s)) contracts (10 on
\* page 1 and 5 on page 3 when s = 10), has_next is true exactly when p < 3 and
\* has_previous is true exactly when p > 1.
C21_PagingStep ==
    (calls' = calls + 1 /\ result'.op = "lambda_handler"
        /\ ListRequest(result'.service, result'.event)) =>
        LET p == Get(result'.event.fields.page, 1)
            s == Get(result'.event.fields.page_size, 10)
            data == result'.response.data
        IN  /\ result'.response.status = "success"
            /\ data.contracts = PageCount(p, s)
            /\ data.pagination.has_next = (p < 3)
            /\ data.pagination.has_previous = (p > 1)

C21_Paging == [][C21_PagingStep]_vars

\* ---------------------------------------------------------------------------
\* log_operation at the cap

\* log is the last Len(log) entries of whole
IsSuffix(log, whole) ==
    /\ Len(log) <= Len(whole)
    /\ log = SubSeq(whole, Len(whole) - Len(log) + 1, Len(whole))

\* C22: log_operation appends the new entry at the end and, when the length
\* then exceeds 1000, drops entries from the front only: after appending to a
\* log of 1000 entries the log is the previous entries 2..1000 in their order
\* followed by the new entry, and the entry recorded first is gone.
C22_AppendStep ==
    (calls' = calls + 1 /\ result'.op = "log") =>
        LET before == operations_log
            after == operations_log'
            entry == after[Len(after)]
        IN  /\ Len(after) >= 1
            /\ entry.operation_type = "CALL" /\ entry.details = <<calls>>
            /\ entry.timestamp = now
            /\ IsSuffix(after, Append(before, entry))
            /\ Len(after) = IF Len(before) + 1 > MaxLogEntries
                            THEN MaxLogEntries ELSE Len(before) + 1
            /\ Len(before) = MaxLogEntries =>
                  /\ after = Append(SubSeq(before, 2, MaxLogEntries), entry)
                  /\ \A i \in 1..Len(after) : after[i] # before[1]

C22_DropsOldest == [][C22_AppendStep]_vars

\* one entry has been appended to a loaded log of 1000 entries: the log starts
\* with the entry loaded second and ends with the new one
C22_Witness ==
    /\ result.op = "log" /\ calls = 1
    /\ Len(operations_log) = MaxLogEntries
    /\ operations_log[1] = ExternalLog(2)[2]
    /\ operations_log[MaxLogEntries].operation_type = "CALL"

\* ---------------------------------------------------------------------------
\* the result of remove_files

\* C23: for every non-dry-run remove_files call that returns success,
\* removed_count plus the number of remaining_files is the number of files
\* passed in, every passed file is in exactly one of removed_files and
\* remaining_files, and total_size_removed is the sum of the sizes of the files
\* reported removed.
C23_CountsStep ==
    (RealCall("remove") /\ result'.success) =>
        LET r == result'
            removed == SeqToSet(r.removed_files)
            remaining == SeqToSet(r.remaining_files)
        IN  /\ r.removed_count + Len(r.remaining_files) = Len(r.files)
            /\ r.removed_count = Len(r.removed_files)
            /\ \A i \in 1..Len(r.files) :
                  (r.files[i] \in removed) # (r.files[i] \in remaining)
            /\ removed \cup remaining \subseteq SeqToSet(r.files)
            /\ r.total_size_removed = SumSizes(r.removed_files)

C23_RemoveCounts == [][C23_CountsStep]_vars

\* a call without force has removed one file and kept the other
C23_Witness ==
    /\ result.op = "remove" /\ ~result.simulation /\ result.success
    /\ ~result.force
    /\ result.removed_count = 1
    /\ Len(result.remaining_files) = 1
    /\ result.total_size_removed > 0

\* ---------------------------------------------------------------------------
\* the snapshot file is written by save_registry only

\* the paths of the records of a data file
SavedPaths(snap) == {snap.files[i].path : i \in 1..Len(snap.files)}

\* C24: backup_files, remove_files and archive_files never write the snapshot
\* file; their registry and log mutations reach it only through a later
\* save_registry call, so a fresh instance made before that save holds the log
\* of the last saved snapshot and, under the saved paths, saved records only
\* (over a saved snapshot without a record it holds the sample records).
C24_SnapshotStep ==
    /\ (calls' = calls + 1 /\ result'.op \in {"backup", "remove", "archive"}) =>
           snapshot' = snapshot
    /\ (result'.op = "init" /\ now' = now /\ ~result'.seeded) =>
           /\ snapshot' = snapshot
           /\ operations_log' = snapshot.operations_log
           /\ RecordsOf(files_registry', info') \subseteq SeqToSet(snapshot.files)
           /\ Keys(files_registry') = SavedPaths(snapshot)
    /\ (result'.op = "init" /\ now' = now /\ result'.seeded) =>
           /\ snapshot.files = <<>>
           /\ RecordsOf(files_registry', info') = {RecordOf(f, [g \in FileIds |-> NewFileInfo(g)]) : f \in FileIds}

C24_SnapshotBySaveOnly == [][C24_SnapshotStep]_vars

\* a fresh instance made after a backup that was never saved: the zip is on
\* disk, no record is flagged and the log holds no entry of the backup
C24_Witness ==
    /\ result.op = "init" /\ ~result.seeded /\ calls >= 1
    /\ \E p \in DOMAIN disk : p.kind = "backup"
    /\ \A f \in Values(files_registry) : ~info[f].backed_up
    /\ \A i \in 1..Len(operations_log) : operations_log[i].operation_type = "INIT"

\* ---------------------------------------------------------------------------
\* get_storage_stats

RECURSIVE SumField(_, _, _)
\* the sum of a field over the entries of a breakdown
SumField(breakdown, keys, field) ==
    IF keys = {} THEN 0
    ELSE LET k == CHOOSE x \in keys : TRUE
         IN  breakdown[k][field] + SumField(breakdown, keys \ {k}, field)

RECURSIVE SumRegistered(_)
SumRegistered(reg) ==
    IF reg = <<>> THEN 0 ELSE SizeOf(Head(reg).obj) + SumRegistered(Tail(reg))

\* the entries of the registry whose record has the flag
Flagged(reg, inf, flag) == {i \in 1..Len(reg) : inf[reg[i].obj][flag]}

\* C25: get_storage_stats is a pure view of the registry: total_files is the
\* number of records, total_size the sum of their sizes, the per-client counts
\* and sizes and the per-type counts and sizes each sum to those totals,
\* backed_up_files and archived_files are the numbers of records with the
\* respective flag, and the call changes no state.
C25_StatsStep ==
    (calls' = calls + 1 /\ result'.op = "get_storage_stats") =>
        LET stats == result'.stats
            by_client == stats.files_by_client
            by_type == stats.files_by_type
        IN  /\ stats.total_files = Len(files_registry)
            /\ stats.total_size = SumRegistered(files_registry)
            /\ SumField(by_client, DOMAIN by_client, "count") = stats.total_files
            /\ SumField(by_client, DOMAIN by_client, "size") = stats.total_size
            /\ SumField(by_type, DOMAIN by_type, "count") = stats.total_files
            /\ SumField(by_type, DOMAIN by_type, "size") = stats.total_size
            /\ DOMAIN by_client = {ClientOf(f) : f \in Values(files_registry)}
            /\ DOMAIN by_type = {TypeOf(f) : f \in Values(files_registry)}
            /\ stats.backed_up_files =
                   Cardinality(Flagged(files_registry, info, "backed_up"))
            /\ stats.archived_files =
                   Cardinality(Flagged(files_registry, info, "archived"))
            /\ UNCHANGED <<files_registry, info, objs, disk, dirs, snapshot,
                           operations_log, now>>

C25_StatsPureView == [][C25_StatsStep]_vars

\* the statistics taken after one of the two files was archived
C25_Witness ==
    /\ result.op = "get_storage_stats"
    /\ result.stats.total_files = 2
    /\ result.stats.archived_files = 1
    /\ result.stats.backed_up_files = 0
    /\ Cardinality(DOMAIN result.stats.files_by_client) = 2

\* ---------------------------------------------------------------------------
\* The lifecycle operations and log_operation over a log found at start-up,
\* empty or at the cap.
NextAppend ==
    \/ BackupFiles
    \/ RemoveFiles
    \/ ArchiveFiles
    \/ LogOperation

SpecAppend == InitLog /\ [][NextAppend]_vars

\* C26: the operation log is append-only: across any backup_files,
\* remove_files, archive_files or log_operation call the log after the call is
\* a suffix of the log before the call followed by the newly appended entries;
\* no entry is modified or reordered, and entries leave only from the front,
\* when the cap of 1000 is passed.
C26_AppendOnlyStep ==
    (calls' = calls + 1 /\ result'.op \in {"backup", "remove", "archive", "log"}) =>
        LET before == operations_log
            after == operations_log'
        IN  \/ after = before
            \/ /\ Len(after) >= 1
               /\ IsSuffix(after, Append(before, after[Len(after)]))
               /\ Len(after) = IF Len(before) + 1 > MaxLogEntries
                               THEN MaxLogEntries ELSE Len(before) + 1

C26_AppendOnly == [][C26_AppendOnlyStep]_vars

\* a backup has appended its entry to a loaded log of 1000 entries, and the
\* entry loaded first has left
C26_Witness ==
    /\ result.op = "backup" /\ ~result.simulation /\ calls = 1
    /\ Len(operations_log) = MaxLogEntries
    /\ operations_log[1] = ExternalLog(2)[2]
    /\ operations_log[MaxLogEntries].operation_type = "BACKUP_CREATED"

\* ---------------------------------------------------------------------------
\* the key of a registry entry

\* C27: in every reachable state each registry entry is stored under a key
\* equal to the current path of its record, so record.path is a key of the
\* registry for every registered record, also after archive_files has rewritten
\* the path of the record.
C27_KeyIsPath ==
    \A i \in 1..Len(files_registry) :
        /\ files_registry[i].key = info[files_registry[i].obj].path
        /\ info[files_registry[i].obj].path \in Keys(files_registry)

\* ---------------------------------------------------------------------------
\* archived content

\* C28: no archived content is lost: in every reachable state, for every
\* registered record with archived = true the zip named by the path of the
\* record is on disk and holds the entry of that file, whatever backup, archive
\* or remove calls came later.
C28_ArchivedContentKept ==
    \A f \in Values(files_registry) :
        info[f].archived =>
            /\ Exists(disk, info[f].path)
            /\ FilePath(f) \in SeqToSet(disk[info[f].path])

\* ---------------------------------------------------------------------------
\* client isolation

\* C29: a backup_files, remove_files or archive_files call made for client_id
\* C changes the flags, path, registration or file on disk only of records
\* whose client_id is C, even when the list passed in holds records of another
\* client.
C29_IsolationStep ==
    (calls' = calls + 1 /\ result'.op \in {"backup", "remove", "archive"}
        /\ ~result'.simulation) =>
        \A f \in objs :
            ClientOf(f) # result'.client_id =>
                /\ info'[f] = info[f]
                /\ Registered(files_registry', f) = Registered(files_registry, f)
                /\ Exists(disk', info[f].path) = Exists(disk, info[f].path)

C29_ClientIsolation == [][C29_IsolationStep]_vars

\* ---------------------------------------------------------------------------
\* a failing backup or archive

\* C30: whenever backup_files or archive_files returns success = false, no
\* record's backed_up or archived flag or path has changed and no original
\* file has been deleted from disk, compared with the state before the call.
C30_FailureStep ==
    (calls' = calls + 1 /\ result'.op \in {"backup", "archive"} /\ ~result'.success) =>
        /\ \A f \in objs :
               /\ info'[f].backed_up = info[f].backed_up
               /\ info'[f].archived = info[f].archived
               /\ info'[f].path = info[f].path
        /\ \A f \in objs : Exists(disk, FilePath(f)) => Exists(disk', FilePath(f))

C30_FailureChangesNothing == [][C30_FailureStep]_vars

====
